---- MODULE Spec2Model ----
(***************************************************************************)
(* Model of the MCTS engine of src/src/mcts.rs (rollout, Node, OutEdge,    *)
(* MctsEngine::select_ucb1 / playout / update_eval / select / clear) and   *)
(* of the way src/src/main.rs and the test of mcts.rs drive it.            *)
(*                                                                         *)
(* The Board type (board.rs) is not among the sources: the game is         *)
(* modelled from the Game State contract of the specification (section     *)
(* 4.1) as a small finite two-pile game with a ply limit.                  *)
(*                                                                         *)
(* f32 values are modelled as fixed-point numbers (unit Scale) extended    *)
(* with the IEEE-754 special values NaN, +inf and -inf, which the          *)
(* arithmetic of select_ucb1 produces.                                     *)
(***************************************************************************)
EXTENDS Integers, Sequences, FiniteSets, TLC

VARIABLES
    nodes,               \* MctsEngine.nodes: set of HashMap entries [key, val]
    exploration_weight,  \* MctsEngine.exploration_weight
    root,                \* the board the harness searches from
    now,                 \* Instant::now()
    pc,                  \* "idle", or "select" while select() is running
    deadline,            \* select's deadline argument
    time_remaining,      \* select's outer local `time_remaining`
    result,              \* value returned by the last select()
    playouts,            \* playouts run by the current/last select() (saturating)
    last,                \* the most recent engine call: new, playout, select, clear
    visited,             \* boards playout() was invoked on since construction/clear
    k,                   \* test_mcts: playouts of the root run by its loop
    dropped,             \* number of entries the last clear() discarded
    path,                \* boards the last top-level playout was invoked on
    black,               \* play_game: nodes of the engine passed as `black`
                         \* (`nodes` is then the engine passed as `white`)
    g_pc,                \* play_game: "idle" outside a game, else its position
    g_stale,             \* play_game: engines holding a Node of before this game
    time_per_move,       \* play_game: its argument
    r_start,             \* rollout: its argument `board`
    new_board,           \* rollout: local `new_board`
    choosen,             \* rollout: local `choosen` (Option<Action>)
    available,           \* rollout: local `available`
    r_pc,                \* rollout: "loop" or "done"
    r_ret                \* rollout: returned value (None before the return)

vars == <<nodes, exploration_weight, root, now, pc, deadline, time_remaining,
          result, playouts, last, visited, k, dropped, path, black, g_pc,
          g_stale, time_per_move, r_start, new_board, choosen,
          available, r_pc, r_ret>>

engineVars == <<nodes, exploration_weight, visited>>
gameVars == <<black, g_pc, g_stale, time_per_move>>
harnessVars == <<root, now, pc, deadline, time_remaining, result, playouts, last,
                 k, dropped, path, gameVars>>
rolloutVars == <<r_start, new_board, choosen, available, r_pc, r_ret>>

(***************************************************************************)
(* Bounds of the model.                                                    *)
(***************************************************************************)
MaxPile == 2        \* tokens per pile of the modelled game
DrawPlies == 3      \* ply limit after which the modelled game is a draw
MaxTime == 2        \* the clock runs over 0..MaxTime
MaxPlayouts == 2    \* the playout counter of select saturates here
MaxCount == 4       \* update_eval is driven until a Node reaches this count

\* test_mcts: `for i in 1..=4`
TestPlayouts == 4

(***************************************************************************)
(* Option<T>: None is the empty sequence, Some(x) the one-element one.     *)
(***************************************************************************)
None == <<>>
Some(x) == <<x>>

Range(s) == {s[i] : i \in 1..Len(s)}

(***************************************************************************)
(* f32.  Finite values are integers in units of 1/Scale.                   *)
(***************************************************************************)
Scale == 1000

Fin(v) == [k |-> "fin", v |-> v]
NaN == [k |-> "nan", v |-> 0]
Inf == [k |-> "inf", v |-> 0]
NegInf == [k |-> "ninf", v |-> 0]

\* u64 as f32
AsF32(n) == Fin(n * Scale)

Sign(x) == IF x.k = "inf" THEN 1
           ELSE IF x.k = "ninf" THEN -1
           ELSE IF x.v > 0 THEN 1 ELSE IF x.v < 0 THEN -1 ELSE 0

IsInfinite(x) == x.k \in {"inf", "ninf"}

\* truncating division of integers (toward zero), as a fixed-point rounding
TDiv(a, b) == IF (a >= 0) = (b > 0) THEN (IF a >= 0 THEN a ELSE -a) \div (IF b > 0 THEN b ELSE -b)
              ELSE -((IF a >= 0 THEN a ELSE -a) \div (IF b > 0 THEN b ELSE -b))

FAdd(x, y) ==
    IF x.k = "nan" \/ y.k = "nan" THEN NaN
    ELSE IF IsInfinite(x) /\ IsInfinite(y) THEN (IF x.k = y.k THEN x ELSE NaN)
    ELSE IF IsInfinite(x) THEN x
    ELSE IF IsInfinite(y) THEN y
    ELSE Fin(x.v + y.v)

FMul(x, y) ==
    IF x.k = "nan" \/ y.k = "nan" THEN NaN
    ELSE IF IsInfinite(x) \/ IsInfinite(y)
         THEN (IF Sign(x) * Sign(y) = 0 THEN NaN
               ELSE IF Sign(x) * Sign(y) > 0 THEN Inf ELSE NegInf)
    ELSE Fin(TDiv(x.v * y.v, Scale))

\* the signs of zero are not tracked: every zero here is +0.0
FDiv(x, y) ==
    IF x.k = "nan" \/ y.k = "nan" THEN NaN
    ELSE IF IsInfinite(x) /\ IsInfinite(y) THEN NaN
    ELSE IF IsInfinite(x)
         THEN (IF Sign(x) * (IF Sign(y) < 0 THEN -1 ELSE 1) > 0 THEN Inf ELSE NegInf)
    ELSE IF IsInfinite(y) THEN Fin(0)
    ELSE IF y.v = 0
         THEN (IF x.v = 0 THEN NaN ELSE IF x.v > 0 THEN Inf ELSE NegInf)
    ELSE Fin(TDiv(x.v * Scale, y.v))

\* largest r in lo..hi with r * r <= n, by bisection (lo * lo <= n)
RECURSIVE ISqrtIn(_, _, _)
ISqrtIn(n, lo, hi) ==
    IF lo >= hi THEN lo
    ELSE LET mid == (lo + hi + 1) \div 2
         IN IF mid * mid <= n THEN ISqrtIn(n, mid, hi) ELSE ISqrtIn(n, lo, mid - 1)

\* largest r with r * r <= n (46340 * 46340 is the largest square below 2^31)
ISqrt(n) == ISqrtIn(n, 0, IF n < 46340 THEN n ELSE 46340)

FSqrt(x) ==
    IF x.k = "nan" \/ x.k = "ninf" THEN NaN
    ELSE IF x.k = "inf" THEN Inf
    ELSE IF x.v < 0 THEN NaN
    ELSE Fin(ISqrt(x.v * Scale))

\* x > y on f32: false as soon as one side is NaN
FGt(x, y) ==
    IF x.k = "nan" \/ y.k = "nan" THEN FALSE
    ELSE IF x.k = "inf" THEN y.k # "inf"
    ELSE IF x.k = "ninf" THEN FALSE
    ELSE IF y.k = "inf" THEN FALSE
    ELSE IF y.k = "ninf" THEN TRUE
    ELSE x.v > y.v

\* log10 of 1..16 in units of 1/Scale
Log10Table == <<0, 301, 477, 602, 699, 778, 845, 903, 954, 1000,
                1041, 1079, 1114, 1146, 1176, 1204>>

RECURSIVE Log10Fixed(_)
Log10Fixed(n) == IF n <= 16 THEN Log10Table[n] ELSE Scale + Log10Fixed(n \div 10)

\* f32::log(n, 10.) for n = count as f32
FLog10(x) ==
    IF x.k = "nan" \/ x.k = "ninf" THEN NaN
    ELSE IF x.k = "inf" THEN Inf
    ELSE IF x.v < 0 THEN NaN
    ELSE IF x.v = 0 THEN NegInf
    ELSE Fin(Log10Fixed(x.v \div Scale))

Half == Scale \div 2
One == Scale

(***************************************************************************)
(* The game (Board, Action, Color).                                        *)
(***************************************************************************)
Color == {"White", "Black"}

Action == {"A", "B", "AB"}

Board == [a : 0..MaxPile, b : 0..MaxPile, turn : Color, plies : 0..DrawPlies]

is_draw(board) == board.plies >= DrawPlies

Legal(board, act) ==
    CASE act = "A" -> board.a > 0
      [] act = "B" -> board.b > 0
      [] act = "AB" -> board.a > 0 /\ board.b > 0

\* the legal actions of the side to move, in a fixed order; none on a draw
actions(board) ==
    IF is_draw(board) THEN <<>>
    ELSE SelectSeq(<<"A", "B", "AB">>, LAMBDA act : Legal(board, act))

Opponent(c) == IF c = "White" THEN "Black" ELSE "White"

apply(board, act) ==
    [a |-> IF act \in {"A", "AB"} THEN board.a - 1 ELSE board.a,
     b |-> IF act \in {"B", "AB"} THEN board.b - 1 ELSE board.b,
     turn |-> Opponent(board.turn),
     plies |-> board.plies + 1]

\* a draw, or no legal action for the side to move
Terminal(board) == is_draw(board) \/ actions(board) = <<>>

(***************************************************************************)
(* white_score and rollout.                                                *)
(***************************************************************************)
\* a score on the scale -1, 0.5, 1
white_score_signed(board) ==
    IF is_draw(board) THEN Half
    ELSE IF board.turn = "White" THEN -One
    ELSE One

\* the two colours exchanged
white_score_swapped(board) ==
    IF is_draw(board) THEN Half
    ELSE IF board.turn = "White" THEN One
    ELSE 0

white_score(board) ==
    IF is_draw(board) THEN Half
    ELSE IF board.turn = "White" THEN 0
    ELSE One

\* the values one call of rollout(board) can return, over the random choices
RECURSIVE rollout(_)
rollout(board) ==
    IF actions(board) = <<>> THEN {white_score(board)}
    ELSE UNION {rollout(apply(board, act)) : act \in Range(actions(board))}

(***************************************************************************)
(* Node and OutEdge.                                                       *)
(***************************************************************************)
OutEdgeNew(action) == [action |-> action, visits |-> 0, eval |-> 0]

NodeInit(board, initial_eval) ==
    [board |-> board,
     count |-> 1,
     out_edges |-> [i \in 1..Len(actions(board)) |-> OutEdgeNew(actions(board)[i])],
     initial_eval |-> initial_eval,
     eval |-> initial_eval]

(***************************************************************************)
(* MctsEngine.nodes: a HashMap<Board, Node>, as the set of its entries.    *)
(***************************************************************************)
MctsEngineNew(weight) == [nodes |-> {}, exploration_weight |-> weight]

contains_key(ns, board) == \E e \in ns : e.key = board

get(ns, board) == (CHOOSE e \in ns : e.key = board).val

\* an insert that stores nothing
insert_lost(ns, board, node) == ns

\* HashMap::insert: the entry of an equal key is replaced
insert(ns, board, node) ==
    {e \in ns : e.key # board} \cup {[key |-> board, val |-> node]}

\* a clear that discards nothing
clear_keep(ns) == ns

clear(ns) == {}

(***************************************************************************)
(* MctsEngine::select_ucb1.                                                *)
(***************************************************************************)
\* the score of one edge, as computed in the loop body
Ucb1(weight, T, n, arc) ==
    LET q_sa == Fin(arc.eval)
        n_sa == AsF32(arc.visits)
        sqrt == FMul(Fin(2 * Scale), FSqrt(FDiv(FLog10(n), n_sa)))
    IN FAdd(FMul(T, q_sa), FMul(Fin(weight), sqrt))

\* the loop over out_edges from index i, carrying max_ucb1 and return_action
RECURSIVE Ucb1Loop(_, _, _, _, _, _, _)
Ucb1Loop(weight, T, n, edges, i, max_ucb1, return_action) ==
    IF i > Len(edges) THEN return_action
    ELSE LET ucb1 == Ucb1(weight, T, n, edges[i])
         IN IF FGt(ucb1, max_ucb1)
            THEN Ucb1Loop(weight, T, n, edges, i + 1, ucb1, Some(edges[i].action))
            ELSE Ucb1Loop(weight, T, n, edges, i + 1, max_ucb1, return_action)

NodeUcb1(weight, node) ==
    LET T == IF node.board.turn = "Black" THEN Fin(Scale) ELSE Fin(-Scale)
    IN Ucb1Loop(weight, T, AsF32(node.count), node.out_edges, 1, Fin(0), None)

select_ucb1(ns, weight, board) == NodeUcb1(weight, get(ns, board))

(***************************************************************************)
(* MctsEngine::update_eval.                                                *)
(***************************************************************************)
\* the term of the selected edge is added before the edge is updated
RECURSIVE UpdateLoopStale(_, _, _, _, _, _)
UpdateLoopStale(edges, count, action, action_eval, i, acc) ==
    IF i > Len(edges) THEN [out_edges |-> edges, eval |-> acc]
    ELSE LET arc == IF edges[i].action = action
                    THEN [edges[i] EXCEPT !.visits = @ + 1, !.eval = action_eval]
                    ELSE edges[i]
             term == TDiv(TDiv(edges[i].visits * Scale, count) * edges[i].eval, Scale)
         IN UpdateLoopStale([edges EXCEPT ![i] = arc], count, action, action_eval,
                            i + 1, acc + term)

\* every edge is counted as visited
RECURSIVE UpdateLoopAll(_, _, _, _, _, _)
UpdateLoopAll(edges, count, action, action_eval, i, acc) ==
    IF i > Len(edges) THEN [out_edges |-> edges, eval |-> acc]
    ELSE LET arc == IF edges[i].action = action
                    THEN [edges[i] EXCEPT !.visits = @ + 1, !.eval = action_eval]
                    ELSE [edges[i] EXCEPT !.visits = @ + 1]
             term == TDiv(TDiv(arc.visits * Scale, count) * arc.eval, Scale)
         IN UpdateLoopAll([edges EXCEPT ![i] = arc], count, action, action_eval,
                          i + 1, acc + term)

\* the loop over out_edges from index i: the edges as left by the loop and
\* the value accumulated in node.eval
RECURSIVE UpdateLoop(_, _, _, _, _, _)
UpdateLoop(edges, count, action, action_eval, i, acc) ==
    IF i > Len(edges) THEN [out_edges |-> edges, eval |-> acc]
    ELSE LET arc == IF edges[i].action = action
                    THEN [edges[i] EXCEPT !.visits = @ + 1, !.eval = action_eval]
                    ELSE edges[i]
             term == TDiv(TDiv(arc.visits * Scale, count) * arc.eval, Scale)
         IN UpdateLoop([edges EXCEPT ![i] = arc], count, action, action_eval,
                       i + 1, acc + term)

\* the seeding rollout value is overwritten by the new value
NodeUpdateReseed(node, action, action_eval) ==
    LET count == node.count + 1
        upd == UpdateLoop(node.out_edges, count, action, action_eval, 1,
                          TDiv(action_eval, count))
    IN [node EXCEPT !.count = count, !.out_edges = upd.out_edges, !.eval = upd.eval,
                    !.initial_eval = action_eval]

\* node.count left as it is
NodeUpdateNoCount(node, action, action_eval) ==
    LET upd == UpdateLoop(node.out_edges, node.count, action, action_eval, 1,
                          TDiv(node.initial_eval, node.count))
    IN [node EXCEPT !.out_edges = upd.out_edges, !.eval = upd.eval]

NodeUpdate(node, action, action_eval) ==
    LET count == node.count + 1
        upd == UpdateLoop(node.out_edges, count, action, action_eval, 1,
                          TDiv(node.initial_eval, count))
    IN [node EXCEPT !.count = count, !.out_edges = upd.out_edges, !.eval = upd.eval]

\* the map after the update, and the value returned
update_eval(ns, board, action, action_eval) ==
    LET node == NodeUpdate(get(ns, board), action, action_eval)
    IN [nodes |-> insert(ns, board, node), ret |-> node.eval]

(***************************************************************************)
(* MctsEngine::playout: every outcome [nodes, ret, visited] of one call,   *)
(* over the random choices of the rollouts.  `seen` collects the boards    *)
(* playout is invoked on.                                                  *)
(***************************************************************************)
RECURSIVE playout(_, _, _, _)

\* the visit is counted on the Node when no action is selected
playout_counting(ns, weight, board, seen) ==
    UNION {
        IF ~contains_key(ns, board)
        THEN {[nodes |-> insert(ns, board, NodeInit(board, eval)),
               ret |-> eval,
               visited |-> seen \cup {board}]}
        ELSE LET sel == select_ucb1(ns, weight, board)
                 node == get(ns, board)
             IN IF sel # None
                THEN {LET upd == update_eval(sub.nodes, board, sel[1], sub.ret)
                      IN [nodes |-> upd.nodes, ret |-> upd.ret, visited |-> sub.visited]
                      : sub \in playout(ns, weight, apply(board, sel[1]),
                                        seen \cup {board})}
                ELSE {[nodes |-> insert(ns, board, [node EXCEPT !.count = @ + 1]),
                       ret |-> eval,
                       visited |-> seen \cup {board}]}
        : eval \in rollout(board)}

\* the expansion also stores a Node for the first successor of the new leaf
playout_expanding(ns, weight, board, seen) ==
    UNION {
        IF ~contains_key(ns, board)
        THEN LET leaf == insert(ns, board, NodeInit(board, eval))
             IN {[nodes |-> IF actions(board) = <<>> THEN leaf
                            ELSE LET next == apply(board, actions(board)[1])
                                 IN insert(leaf, next, NodeInit(next, eval)),
                  ret |-> eval,
                  visited |-> seen \cup {board}]}
        ELSE LET sel == select_ucb1(ns, weight, board)
             IN IF sel # None
                THEN {LET upd == update_eval(sub.nodes, board, sel[1], sub.ret)
                      IN [nodes |-> upd.nodes, ret |-> upd.ret, visited |-> sub.visited]
                      : sub \in playout(ns, weight, apply(board, sel[1]),
                                        seen \cup {board})}
                ELSE {[nodes |-> ns, ret |-> eval, visited |-> seen \cup {board}]}
        : eval \in rollout(board)}

playout(ns, weight, board, seen) ==
    UNION {
        IF ~contains_key(ns, board)
        THEN {[nodes |-> insert(ns, board, NodeInit(board, eval)),
               ret |-> eval,
               visited |-> seen \cup {board}]}
        ELSE LET sel == select_ucb1(ns, weight, board)
             IN IF sel # None
                THEN {LET upd == update_eval(sub.nodes, board, sel[1], sub.ret)
                      IN [nodes |-> upd.nodes, ret |-> upd.ret, visited |-> sub.visited]
                      : sub \in playout(ns, weight, apply(board, sel[1]),
                                        seen \cup {board})}
                ELSE {[nodes |-> ns, ret |-> eval, visited |-> seen \cup {board}]}
        : eval \in rollout(board)}

(***************************************************************************)
(* The engine driven as test_mcts and the harness drive it: direct         *)
(* playouts of a root, select with a deadline, clear.                      *)
(***************************************************************************)
Weights == {0, One}

OptionAction == {None} \cup {Some(act) : act \in Action}

Init ==
    /\ root \in Board
    /\ exploration_weight \in Weights
    /\ nodes = MctsEngineNew(exploration_weight).nodes
    /\ visited = {}
    /\ now = 0
    /\ pc = "idle"
    /\ deadline = 0
    /\ time_remaining = FALSE
    /\ result = None
    /\ playouts = 0
    /\ last = "new"
    /\ k = 0
    /\ dropped = 0
    /\ path = {}
    /\ black = MctsEngineNew(exploration_weight).nodes
    /\ g_pc = "idle"
    /\ g_stale = {}
    /\ time_per_move = 0
    /\ r_start = root
    /\ new_board = root
    /\ choosen = None
    /\ available = FALSE
    /\ r_pc = "idle"
    /\ r_ret = None

\* the locals of a returned select and its result are dead once the harness
\* makes its next call
SelectFrameGone ==
    /\ deadline' = 0
    /\ time_remaining' = FALSE
    /\ result' = None
    /\ playouts' = 0

\* the clock advances
Tick ==
    /\ now < MaxTime
    /\ now' = now + 1
    /\ UNCHANGED <<engineVars, root, pc, deadline, time_remaining, result,
                   playouts, last, k, dropped, path, rolloutVars, gameVars>>

\* mcts.playout(&board), as called by test_mcts
PlayoutCall ==
    /\ pc = "idle"
    /\ k < TestPlayouts
    /\ k' = k + 1
    /\ \E out \in playout(nodes, exploration_weight, root, {}) :
          /\ nodes' = out.nodes
          /\ visited' = visited \cup out.visited
          /\ path' = out.visited
    /\ last' = "playout"
    /\ SelectFrameGone
    /\ UNCHANGED <<exploration_weight, root, now, pc, dropped, rolloutVars, gameVars>>

\* select(&board, deadline): `time_remaining` is evaluated once, on entry
SelectEnter ==
    /\ pc = "idle"
    /\ \E d \in 0..MaxTime : deadline' = d
    /\ time_remaining' = (now < deadline')
    /\ playouts' = 0
    /\ result' = None
    /\ pc' = "select"
    /\ last' = "select"
    /\ UNCHANGED <<engineVars, root, now, k, dropped, path, rolloutVars, gameVars>>

\* one iteration of `while(time_remaining)`: the inner `let time_remaining`
\* declares a new local of the loop body and leaves the loop condition as it is
SelectLoop ==
    /\ pc = "select"
    /\ time_remaining
    /\ \E out \in playout(nodes, exploration_weight, root, {}) :
          /\ nodes' = out.nodes
          /\ visited' = visited \cup out.visited
          /\ path' = out.visited
    /\ playouts' = IF playouts < MaxPlayouts THEN playouts + 1 ELSE playouts
    /\ UNCHANGED <<exploration_weight, root, now, pc, deadline, time_remaining,
                   result, last, k, dropped, rolloutVars, gameVars>>

\* `return todo;`: `todo` is bound nowhere, the value returned is any
\* Option<Action>
SelectReturn ==
    /\ pc = "select"
    /\ ~time_remaining
    /\ \E todo \in OptionAction : result' = todo
    /\ pc' = "idle"
    /\ UNCHANGED <<engineVars, root, now, deadline, time_remaining, playouts,
                   last, k, dropped, path, rolloutVars, gameVars>>

\* clear()
ClearCall ==
    /\ pc = "idle"
    /\ nodes' = clear(nodes)
    /\ visited' = {}
    /\ k' = 0
    /\ dropped' = Cardinality(nodes)
    /\ path' = {}
    /\ last' = "clear"
    /\ SelectFrameGone
    /\ UNCHANGED <<exploration_weight, root, now, pc, rolloutVars, gameVars>>

Next ==
    \/ Tick
    \/ PlayoutCall
    \/ SelectEnter
    \/ SelectLoop
    \/ SelectReturn
    \/ ClearCall

Spec == Init /\ [][Next]_vars

(***************************************************************************)
(* rollout, statement by statement.                                        *)
(***************************************************************************)
\* actions.choose(&mut rng).cloned()
Choose(acts) == IF acts = <<>> THEN {None} ELSE {Some(act) : act \in Range(acts)}

RolloutInit ==
    /\ Init
    /\ root = [a |-> 0, b |-> 0, turn |-> "White", plies |-> 0]
    /\ exploration_weight = One

\* rollout(&board): the three initialisations before the loop
RolloutCall ==
    /\ r_pc \in {"idle", "done"}
    /\ \E board \in Board :
          /\ r_start' = board
          /\ new_board' = board
          /\ choosen' \in Choose(actions(board))
    /\ available' = TRUE
    /\ r_pc' = "loop"
    /\ r_ret' = None
    /\ UNCHANGED <<engineVars, harnessVars>>

\* the action is chosen again without being applied
RolloutApplyStale ==
    /\ r_pc = "loop"
    /\ available
    /\ choosen # None
    /\ new_board' = new_board
    /\ choosen' \in Choose(actions(new_board'))
    /\ UNCHANGED <<engineVars, harnessVars, r_start, available, r_pc, r_ret>>

\* loop body, Some(act): apply the action and choose the next one
RolloutApply ==
    /\ r_pc = "loop"
    /\ available
    /\ choosen # None
    /\ new_board' = apply(new_board, choosen[1])
    /\ choosen' \in Choose(actions(new_board'))
    /\ UNCHANGED <<engineVars, harnessVars, r_start, available, r_pc, r_ret>>

\* loop body, None: available = false
RolloutExhausted ==
    /\ r_pc = "loop"
    /\ available
    /\ choosen = None
    /\ available' = FALSE
    /\ UNCHANGED <<engineVars, harnessVars, r_start, new_board, choosen, r_pc, r_ret>>

\* return white_score(&new_board)
RolloutReturn ==
    /\ r_pc = "loop"
    /\ ~available
    /\ r_ret' = Some(white_score(new_board))
    /\ r_pc' = "done"
    /\ UNCHANGED <<engineVars, harnessVars, r_start, new_board, choosen, available>>

RolloutNext ==
    \/ RolloutCall
    \/ RolloutApply
    \/ RolloutExhausted
    \/ RolloutReturn

\* a started rollout runs on: the program is sequential
RolloutSpec ==
    /\ RolloutInit
    /\ [][RolloutNext]_vars
    /\ WF_vars(RolloutApply)
    /\ WF_vars(RolloutExhausted)
    /\ WF_vars(RolloutReturn)

(***************************************************************************)
(* One Node from its creation on, with update_eval driven by every action  *)
(* of the Node and every value: a superset of the calls playout can make.  *)
(***************************************************************************)
Values == {0, Half, One}

\* Node::init and the insert of playout
NodeCreate ==
    /\ ~contains_key(nodes, root)
    /\ \E eval \in rollout(root) : nodes' = insert(nodes, root, NodeInit(root, eval))
    /\ visited' = visited \cup {root}
    /\ last' = "playout"
    /\ UNCHANGED <<exploration_weight, root, now, pc, deadline, time_remaining,
                   result, playouts, k, dropped, path, rolloutVars, gameVars>>

\* update_eval(board, &action, action_eval)
UpdateEval ==
    /\ contains_key(nodes, root)
    /\ get(nodes, root).count < MaxCount
    /\ \E act \in Range(actions(root)), action_eval \in Values :
          nodes' = update_eval(nodes, root, act, action_eval).nodes
    /\ last' = "playout"
    /\ UNCHANGED <<exploration_weight, visited, root, now, pc, deadline,
                   time_remaining, result, playouts, k, dropped, path, rolloutVars,
                   gameVars>>

UpdateNext ==
    \/ NodeCreate
    \/ UpdateEval

UpdateSpec == Init /\ [][UpdateNext]_vars

(***************************************************************************)
(* playout on graphs whose Nodes have been visited: update_eval is driven  *)
(* on any stored Node, which brings the graph into states where            *)
(* select_ucb1 selects an edge, and playout is applied to the root.  The    *)
(* game starts with at most MaxPile tokens and the graph holds fewer than  *)
(* MaxCount visits when update_eval is driven from outside a playout.      *)
(***************************************************************************)
\* the visits recorded in the graph: count - 1 per Node
RECURSIVE TotalVisits(_)
TotalVisits(ns) ==
    IF ns = {} THEN 0
    ELSE LET e == CHOOSE x \in ns : TRUE
         IN (e.val.count - 1) + TotalVisits(ns \ {e})

DescentInit ==
    /\ Init
    /\ root.plies = 0
    /\ root.a + root.b <= MaxPile
    /\ exploration_weight = One

\* update_eval(board, &action, action_eval) on a stored Node
UpdateEvalAny ==
    /\ pc = "idle"
    /\ TotalVisits(nodes) < MaxCount
    /\ \E e \in nodes :
          /\ e.val.count < MaxCount
          /\ \E act \in Range(actions(e.key)), action_eval \in Values :
                nodes' = update_eval(nodes, e.key, act, action_eval).nodes
    /\ last' = "update"
    /\ UNCHANGED <<exploration_weight, visited, root, now, pc, deadline,
                   time_remaining, result, playouts, k, dropped, path, rolloutVars,
                   gameVars>>

DescentNext ==
    \/ PlayoutCall
    \/ UpdateEvalAny
    \/ ClearCall

DescentSpec == DescentInit /\ [][DescentNext]_vars

(***************************************************************************)
(* play_game (main.rs): `nodes` is the map of the white engine, `black`    *)
(* the map of the black engine.  g_pc is the position in play_game;        *)
(* g_stale is the set of engines that still hold a Node they held when     *)
(* play_game was entered.                                                  *)
(***************************************************************************)
\* an engine is used before it is handed to play_game
GamePrepare ==
    /\ g_pc = "idle"
    /\ pc = "idle"
    /\ \E c \in Color :
          IF c = "White"
          THEN /\ ~contains_key(nodes, root)
               /\ \E out \in playout(nodes, exploration_weight, root, {}) :
                     nodes' = out.nodes
               /\ UNCHANGED black
          ELSE /\ ~contains_key(black, root)
               /\ \E out \in playout(black, exploration_weight, root, {}) :
                     black' = out.nodes
               /\ UNCHANGED nodes
    /\ UNCHANGED <<exploration_weight, visited, root, now, pc, deadline,
                   time_remaining, result, playouts, last, k, dropped, path,
                   g_pc, g_stale, time_per_move, rolloutVars>>

\* play_game(board, white, black, time_per_move, verbose) is entered
GameStart ==
    /\ g_pc = "idle"
    /\ pc = "idle"
    /\ time_per_move' \in 0..1
    /\ g_stale' = {c \in Color : IF c = "White" THEN nodes # {} ELSE black # {}}
    /\ dropped' = 0
    /\ g_pc' = "clear_white"
    /\ SelectFrameGone
    /\ UNCHANGED <<engineVars, black, root, now, pc, last, k, path, rolloutVars>>

\* white.clear()
GameClearWhite ==
    /\ g_pc = "clear_white"
    /\ nodes' = clear(nodes)
    /\ dropped' = dropped + Cardinality(nodes)
    /\ g_stale' = IF nodes' = {} THEN g_stale \ {"White"} ELSE g_stale
    /\ g_pc' = "clear_black"
    /\ last' = "clear"
    /\ UNCHANGED <<exploration_weight, visited, black, root, now, pc, deadline,
                   time_remaining, result, playouts, k, path, time_per_move,
                   rolloutVars>>

\* black.clear()
GameClearBlack ==
    /\ g_pc = "clear_black"
    /\ black' = clear(black)
    /\ dropped' = dropped + Cardinality(black)
    /\ g_stale' = IF black' = {} THEN g_stale \ {"Black"} ELSE g_stale
    /\ g_pc' = "loop"
    /\ last' = "clear"
    /\ UNCHANGED <<engineVars, root, now, pc, deadline, time_remaining, result,
                   playouts, k, path, time_per_move, rolloutVars>>

\* `while !board.is_draw()`: the game returns, or select is entered on the
\* engine of board.turn with deadline = Instant::now() + time_per_move
GameLoop ==
    /\ g_pc = "loop"
    /\ IF is_draw(root)
       THEN /\ g_pc' = "idle"
            /\ UNCHANGED <<deadline, time_remaining, playouts, result>>
       ELSE /\ deadline' = now + time_per_move
            /\ time_remaining' = (now < deadline')
            /\ playouts' = 0
            /\ result' = None
            /\ g_pc' = "select"
    /\ UNCHANGED <<engineVars, black, root, now, pc, last, k, dropped, path,
                   g_stale, time_per_move, rolloutVars>>

\* one iteration of the loop of select, in the engine of board.turn
GameSelectPlayout ==
    /\ g_pc = "select"
    /\ time_remaining
    /\ IF root.turn = "White"
       THEN /\ \E out \in playout(nodes, exploration_weight, root, {}) :
                 nodes' = out.nodes
            /\ UNCHANGED black
       ELSE /\ \E out \in playout(black, exploration_weight, root, {}) :
                 black' = out.nodes
            /\ UNCHANGED nodes
    /\ playouts' = IF playouts < MaxPlayouts THEN playouts + 1 ELSE playouts
    /\ last' = "playout"
    /\ UNCHANGED <<exploration_weight, visited, root, now, pc, deadline,
                   time_remaining, result, k, dropped, path, g_pc, g_stale,
                   time_per_move, rolloutVars>>

\* select returns `todo`: Some(action) is applied to the board, None ends
\* the game; apply_mut of an action that is not legal ends the run
GameSelectReturn ==
    /\ g_pc = "select"
    /\ ~time_remaining
    /\ \E todo \in OptionAction :
          IF todo = None
          THEN g_pc' = "idle" /\ UNCHANGED root
          ELSE IF Legal(root, todo[1])
               THEN g_pc' = "loop" /\ root' = apply(root, todo[1])
               ELSE g_pc' = "abort" /\ UNCHANGED root
    /\ last' = "select"
    /\ UNCHANGED <<engineVars, black, now, pc, deadline, time_remaining, result,
                   playouts, k, dropped, path, g_stale, time_per_move,
                   rolloutVars>>

GameNext ==
    \/ Tick
    \/ GamePrepare
    \/ GameStart
    \/ GameClearWhite
    \/ GameClearBlack
    \/ GameLoop
    \/ GameSelectPlayout
    \/ GameSelectReturn

GameSpec == Init /\ [][GameNext]_vars

(***************************************************************************)
(* Properties.                                                             *)
(***************************************************************************)
Returned == pc = "idle" /\ last = "select"

SumVisits(edges) ==
    LET RECURSIVE Sum(_)
        Sum(i) == IF i = 0 THEN 0 ELSE edges[i].visits + Sum(i - 1)
    IN Sum(Len(edges))

\* C1: select re-checks the deadline between playouts: once the deadline
\* has passed, select starts no further playout.
C1_NoPlayoutAfterDeadline == [][SelectLoop => now < deadline]_vars

\* C2: a select entered with an elapsed deadline on a root that has a legal
\* action has run at least one playout when it returns, and returns Some(a)
\* with a a legal action of the root.
C2_ElapsedDeadlineStillPlays ==
    (Returned /\ ~time_remaining /\ actions(root) # <<>>)
        => /\ playouts >= 1
           /\ result \in {Some(act) : act \in Range(actions(root))}

\* C3: when select returns, its result is the action of an out-edge of the
\* root Node whose visit count is the largest.
C3_RobustChild ==
    (Returned /\ contains_key(nodes, root) /\ get(nodes, root).out_edges # <<>>)
        => LET edges == get(nodes, root).out_edges
           IN \E i \in DOMAIN edges :
                 /\ \A j \in DOMAIN edges : edges[j].visits <= edges[i].visits
                 /\ result = Some(edges[i].action)

\* C4: select on a terminal root returns None.
C4_TerminalRootNone == (Returned /\ Terminal(root)) => result = None

\* C5: a clear() leaves the engine in the state of MctsEngine::new with the
\* same exploration weight.
C5_ClearIsFresh ==
    [][last' = "clear"
         => [nodes |-> nodes', exploration_weight |-> exploration_weight']
              = MctsEngineNew(exploration_weight)]_vars

C5_Witness == last = "clear" /\ dropped >= 1 /\ nodes = {}

\* C6: every rollout that has started returns, and the value it returns is
\* 0, 0.5 or 1.
C6_RolloutTerminates ==
    /\ (r_pc = "loop") ~> (r_pc = "done")
    /\ [](r_pc = "done" => r_ret \in {Some(0), Some(Half), Some(One)})

C6_Witness == r_pc = "done" /\ r_ret = Some(Half) /\ new_board.plies >= r_start.plies + 2

C8_OneNodePerState ==
    /\ \A board \in visited :
          ~Terminal(board) => Cardinality({e \in nodes : e.key = board}) = 1
    /\ \A e1, e2 \in nodes : e1.key = e2.key => e1 = e2
    /\ \A e \in nodes : e.val.board = e.key
    /\ (~Terminal(root) /\ (k >= 1 \/ playouts >= 1))
          => Cardinality({e \in nodes : e.key = root}) = 1

C8_Witness ==
    /\ last = "playout"
    /\ k >= 2
    /\ ~Terminal(root)
    /\ Cardinality({e \in nodes : e.key = root}) = 1

\* C9: every Node has a visit count >= 1, and the visit counts of its
\* out-edges sum to at most that count minus one.
C9_EdgeVisitsBelowCount ==
    \A e \in nodes :
        /\ e.val.count >= 1
        /\ SumVisits(e.val.out_edges) <= e.val.count - 1

C9_Witness ==
    \E e \in nodes :
        /\ e.val.count >= 3
        /\ Len(e.val.out_edges) >= 2
        /\ SumVisits(e.val.out_edges) = e.val.count - 1

\* C10: on a Node with an unvisited out-edge, select_ucb1 returns the action
\* of an unvisited edge.
C10_UnvisitedFirst ==
    \A e \in nodes :
        LET edges == e.val.out_edges
            unvisited == {i \in DOMAIN edges : edges[i].visits = 0}
        IN unvisited # {}
             => select_ucb1(nodes, exploration_weight, e.key)
                  \in {Some(edges[i].action) : i \in unvisited}

\* C11: no Node is stored for a terminal board: a playout of a terminal
\* board leaves the graph as it is.
C11_NoNodeForTerminal == \A e \in nodes : ~Terminal(e.key)

\* C12: on a stored Node without any out-edge, where select_ucb1 selects no
\* action, playout returns (it has an outcome), the value it returns is the
\* Node's initial_eval, and the graph is left as it is.
C12_NoActionFallback ==
    \A e \in nodes :
        (e.val.out_edges = <<>> /\ select_ucb1(nodes, exploration_weight, e.key) = None)
            => /\ playout(nodes, exploration_weight, e.key, visited) # {}
               /\ \A out \in playout(nodes, exploration_weight, e.key, visited) :
                     /\ out.ret = e.val.initial_eval
                     /\ out.nodes = nodes

C12_Witness ==
    /\ last = "playout"
    /\ k >= 2
    /\ contains_key(nodes, root)
    /\ get(nodes, root).out_edges = <<>>
    /\ select_ucb1(nodes, exploration_weight, root) = None

\* C14: after k >= 1 consecutive playouts of a root that has a legal action,
\* from an empty graph, the root Node's count is k and its edges' visit
\* counts sum to k - 1.
C14_CountIsPlayouts ==
    (last = "playout" /\ k >= 1 /\ actions(root) # <<>>)
        => /\ contains_key(nodes, root)
           /\ get(nodes, root).count = k
           /\ SumVisits(get(nodes, root).out_edges) = k - 1

InUnit(v) == 0 <= v /\ v <= One

\* C16: every Node's initial_eval and eval and every Edge's eval lie in
\* [0,1], and so does every value a playout returns.
C16_ValuesInUnitInterval ==
    /\ \A e \in nodes :
          /\ InUnit(e.val.initial_eval)
          /\ InUnit(e.val.eval)
          /\ \A i \in DOMAIN e.val.out_edges : InUnit(e.val.out_edges[i].eval)
    /\ pc = "idle" =>
          \A out \in playout(nodes, exploration_weight, root, visited) : InUnit(out.ret)

C16_Witness ==
    /\ last = "playout"
    /\ k >= 2
    /\ \E e \in nodes : e.val.eval = Half /\ e.val.out_edges # <<>>

\* the score of an edge as the claim writes it
ClaimScore(weight, node, arc) ==
    LET T == IF node.board.turn = "Black" THEN Fin(Scale) ELSE Fin(-Scale)
    IN FAdd(FMul(T, Fin(arc.eval)),
            FMul(Fin(weight),
                 FSqrt(FDiv(FMul(Fin(2 * Scale), FLog10(AsF32(node.count))),
                            AsF32(arc.visits)))))

\* C17: on a Node with an out-edge, select_ucb1 returns the action of the
\* first edge whose score is maximal; it returns None only on a Node
\* without out-edges.
C17_ArgmaxFirst ==
    \A e \in nodes :
        LET edges == e.val.out_edges
            score(i) == ClaimScore(exploration_weight, e.val, edges[i])
            sel == select_ucb1(nodes, exploration_weight, e.key)
        IN /\ (sel = None) <=> (edges = <<>>)
           /\ edges # <<>> =>
                \E i \in DOMAIN edges :
                    /\ sel = Some(edges[i].action)
                    /\ \A j \in DOMAIN edges : ~FGt(score(j), score(i))
                    /\ \A j \in 1..(i - 1) : FGt(score(i), score(j))

\* Q(s) as the claim writes it, from the fields of the Node
ClaimQ(node) ==
    LET RECURSIVE Sum(_)
        Sum(i) == IF i = 0 THEN 0
                  ELSE TDiv(TDiv(node.out_edges[i].visits * Scale, node.count)
                              * node.out_edges[i].eval, Scale) + Sum(i - 1)
    IN TDiv(node.initial_eval, node.count) + Sum(Len(node.out_edges))

\* C15: update_eval(s, a, v) adds 1 to N(s,a), sets Q(s,a) to v, adds 1 to
\* N(s), and sets and returns Q(s) = initial_eval/N(s) + sum over the edges
\* of (N(s,a)/N(s)) * Q(s,a), on the updated counts and edge value.
C15_UpdateEval ==
    [][UpdateEval =>
         LET old == get(nodes, root)
             new == get(nodes', root)
         IN \E i \in DOMAIN old.out_edges, v \in Values :
               /\ new.out_edges[i].visits = old.out_edges[i].visits + 1
               /\ new.out_edges[i].eval = v
               /\ new.count = old.count + 1
               /\ new.eval = ClaimQ(new)
               /\ update_eval(nodes, root, old.out_edges[i].action, v).ret = new.eval
               /\ update_eval(nodes, root, old.out_edges[i].action, v).nodes = nodes']_vars

C15_Witness ==
    \E e \in nodes :
        /\ e.val.count = 3
        /\ e.val.initial_eval = One
        /\ \E i \in DOMAIN e.val.out_edges :
              e.val.out_edges[i].visits = 2 /\ e.val.out_edges[i].eval = Half
        /\ e.val.eval = ClaimQ(e.val)

EdgeActions(node) == [i \in DOMAIN node.out_edges |-> node.out_edges[i].action]

\* C18: a Node has one out-edge per legal action of its board, in the order
\* of actions(), created with visit count 0; the edge actions, the board and
\* initial_eval of a stored Node never change.
C18_EdgesFixedAtCreation ==
    /\ [](\A e \in nodes :
            /\ e.val.board = e.key
            /\ EdgeActions(e.val) = actions(e.key))
    /\ [][\A e \in nodes : \E f \in nodes' :
            /\ f.key = e.key
            /\ f.val.board = e.val.board
            /\ f.val.initial_eval = e.val.initial_eval
            /\ EdgeActions(f.val) = EdgeActions(e.val)]_vars
    /\ [][\A f \in nodes' :
            ~contains_key(nodes, f.key)
                => \A i \in DOMAIN f.val.out_edges : f.val.out_edges[i].visits = 0]_vars

C18_Witness ==
    \E e \in nodes :
        /\ e.val.count >= 3
        /\ Len(e.val.out_edges) = 3
        /\ e.val.initial_eval = 0
        /\ e.val.eval > 0

Keys(ns) == {e.key : e \in ns}

\* C19: a playout of the root has an outcome and adds at most one Node: the
\* boards it descends through are stored Nodes except at most the last one,
\* which is the Node it adds; no step other than clear() removes a Node.
C19_PlayoutAddsOneNode ==
    /\ [](pc = "idle" => playout(nodes, exploration_weight, root, {}) # {})
    /\ [][PlayoutCall =>
            /\ Keys(nodes') = Keys(nodes) \cup path'
            /\ Cardinality(path' \ Keys(nodes)) <= 1
            /\ Cardinality(nodes') <= Cardinality(nodes) + 1]_vars
    /\ [][Keys(nodes) \subseteq Keys(nodes') \/ ClearCall]_vars

C19_Witness ==
    /\ last = "playout"
    /\ Cardinality(nodes) >= 3
    /\ \E e \in nodes : e.key # root /\ e.key \in path /\ e.val.count = 1

\* C20: update_eval(s, a, v) leaves every Node other than s and every edge
\* of s other than the one of a as they are; a playout of the root leaves
\* every Node off its descent path as it is.
C20_FrameOfPlayout ==
    /\ [](\A e \in nodes : \A act \in Range(actions(e.key)), v \in Values :
            LET out == update_eval(nodes, e.key, act, v).nodes
                new == get(out, e.key)
            IN /\ {f \in out : f.key # e.key} = nodes \ {e}
               /\ \A i \in DOMAIN e.val.out_edges :
                     e.val.out_edges[i].action # act
                         => new.out_edges[i] = e.val.out_edges[i])
    /\ [][PlayoutCall =>
            \A e \in nodes : e.key \notin path' => e \in nodes']_vars

C20_Witness ==
    /\ last = "playout"
    /\ Cardinality(path) >= 2
    /\ \E e \in nodes :
          /\ e.key \notin path
          /\ e.val.count >= 2
          /\ \E i \in DOMAIN e.val.out_edges : e.val.out_edges[i].visits >= 1

\* C13: in play_game both engines are cleared before the first select of
\* the game: while the game loop runs no engine holds a Node it held when
\* play_game was entered, and the first select of a game, the one that
\* follows the two clear() calls, finds both maps empty.
C13_ClearedBeforeSelect ==
    /\ g_pc \in {"loop", "select"} => g_stale = {}
    /\ (g_pc = "select" /\ last = "clear" /\ playouts = 0)
          => nodes = {} /\ black = {}

C13_Witness ==
    /\ g_pc = "select"
    /\ last = "clear"
    /\ root.turn = "Black"
    /\ playouts = 0
    /\ dropped >= 2

====
